---- MODULE Spec2Model ----
(***************************************************************************)
(* Model of the preferences store of lens-extension-cc                     *)
(* (PreferencesStore: schema preferencesTs, getDefaults, reset, fromStore, *)
(* toJSON, addUpdateHandler, removeUpdateHandler).                         *)
(*                                                                         *)
(* JavaScript values are encoded as sequences of strings whose first       *)
(* element is the type tag:                                                *)
(*   <<"undef">>            undefined                                      *)
(*   <<"null">>             null                                           *)
(*   <<"bool", "true">>     a boolean                                      *)
(*   <<"num", "7">>         a number                                       *)
(*   <<"str", c1, ..., cn>> the string c1...cn (one character each)        *)
(*   <<"arr", h1, ..., hn>> an array holding the handler functions h1..hn  *)
(* An object is a function from its own enumerable property names to       *)
(* values; reading a property the object does not own yields undefined.    *)
(***************************************************************************)
EXTENDS Integers, Sequences, FiniteSets, TLC

\* Number of distinct handler functions the callers have at hand.
MaxHandlers == 2

VARIABLES
    this,            \* own enumerable properties of the PreferencesStore instance
    defaultSavePath, \* static PreferencesStore.defaultSavePath
    registered,      \* handlers added and not removed by calls that returned (history)
    twice,           \* registered handlers that were added again since (history)
    removed,         \* handlers removed and not registered again since (history)
    op,              \* last operation called
    argMap,          \* argument of the last fromStore (else the empty map)
    argH,            \* argument of the last add/removeUpdateHandler (else "")
    valid,           \* result.valid of the last fromStore (else FALSE)
    fault,           \* "none", or the error the last operation threw
    calls,           \* handlers invoked by the last operation, in order
    seen,            \* snapshot each invoked handler could observe, in order
    does,            \* what a handler did when the last fromStore invoked it (<<>>: nothing)
    ret              \* snapshot returned by the last toJSON (else the empty map)

vars == <<this, defaultSavePath, registered, twice, removed, op, argMap, argH, valid, fault, calls, seen, does, ret>>

----------------------------------------------------------------------------
\* JavaScript values

Undef == <<"undef">>
Null == <<"null">>
True == <<"bool", "true">>
False == <<"bool", "false">>
Num7 == <<"num", "7">>
Str(s) == <<"str">> \o s
Arr(hs) == <<"arr">> \o hs

IsString(v) == v[1] = "str"
IsBoolean(v) == v[1] = "bool"
IsArray(v) == v[1] = "arr"
Elems(v) == Tail(v)

EmptyMap == <<>>

\* obj[key] for a JavaScript object.
Get(obj, key) == IF key \in DOMAIN obj THEN obj[key] ELSE Undef

\* obj after obj[key] = v.
Put(obj, key, v) == [k \in DOMAIN obj \cup {key} |-> IF k = key THEN v ELSE obj[k]]

----------------------------------------------------------------------------
\* preferencesTs: the RTV.js typeset

\* Mutant: the trailing-slash pattern anchored at the start (/^\//).
MatchesLeadingSlash(v) == Len(v) > 1 /\ v[2] = "/"

\* v.match(/\/$/) for a string v.
MatchesTrailingSlash(v) == Len(v) > 1 /\ v[Len(v)] = "/"

\* Mutant: the custom validator never throws.
CloudUrlValidatorNoThrow(v) == TRUE

\* The custom validator of cloudUrl: TRUE when it does not throw. v is falsy
\* when null or the empty string.
CloudUrlValidator(v) ==
    ~ (v # Null /\ v # Str(<<>>) /\ IsString(v) /\ MatchesTrailingSlash(v))

\* rtv qualifier semantics: the values a qualifier permits regardless of type.
\* EXPECTED permits null, not undefined.
ValuePermitted(v, q) ==
    CASE q = "EXPECTED" -> v = Null
      [] q = "OPTIONAL" -> v = Null \/ v = Undef
      [] OTHER -> FALSE

\* rtv type check of one value; an empty string is a STRING unless REQUIRED.
IsOfType(v, type) ==
    CASE type = "STRING" -> IsString(v)
      [] type = "BOOLEAN" -> IsBoolean(v)
      [] OTHER -> FALSE

Recognized == {"cloudUrl", "username", "savePath", "offline", "addToNew"}

\* Mutant: username and savePath declared rtv.OPTIONAL.
preferencesTsOptional ==
    [k \in Recognized |->
        CASE k = "cloudUrl" -> [q |-> "EXPECTED", type |-> "STRING", validator |-> TRUE]
          [] k = "username" -> [q |-> "OPTIONAL", type |-> "STRING", validator |-> FALSE]
          [] k = "savePath" -> [q |-> "OPTIONAL", type |-> "STRING", validator |-> FALSE]
          [] k = "offline" -> [q |-> "EXPECTED", type |-> "BOOLEAN", validator |-> FALSE]
          [] k = "addToNew" -> [q |-> "EXPECTED", type |-> "BOOLEAN", validator |-> FALSE]]

preferencesTs ==
    [k \in Recognized |->
        CASE k = "cloudUrl" -> [q |-> "EXPECTED", type |-> "STRING", validator |-> TRUE]
          [] k = "username" -> [q |-> "EXPECTED", type |-> "STRING", validator |-> FALSE]
          [] k = "savePath" -> [q |-> "EXPECTED", type |-> "STRING", validator |-> FALSE]
          [] k = "offline" -> [q |-> "EXPECTED", type |-> "BOOLEAN", validator |-> FALSE]
          [] k = "addToNew" -> [q |-> "EXPECTED", type |-> "BOOLEAN", validator |-> FALSE]]

\* rtv check of one property value against its typeset [qualifier, type, validator?].
CheckValue(v, ts) ==
    /\ ValuePermitted(v, ts.q) \/ IsOfType(v, ts.type)
    /\ ts.validator => CloudUrlValidator(v)

\* rtv.check({ store }, { store: preferencesTs }).valid: every property of the
\* shape is checked on the store; properties outside the shape are ignored.
RtvCheck(store) == \A k \in DOMAIN preferencesTs : CheckValue(Get(store, k), preferencesTs[k])

----------------------------------------------------------------------------
\* PreferencesStore

\* The handler functions callers may register, compared by identity.
Handlers == {"h" \o ToString(i) : i \in 1..MaxHandlers}

\* Mutant: savePath is the literal null, the configured default is ignored.
GetDefaultsNullPath ==
    [k \in Recognized |->
        CASE k = "cloudUrl" -> Null
          [] k = "username" -> Null
          [] k = "savePath" -> Null
          [] k = "offline" -> False
          [] k = "addToNew" -> True]

\* static getDefaults()
GetDefaults ==
    [k \in Recognized |->
        CASE k = "cloudUrl" -> Null
          [] k = "username" -> Null
          [] k = "savePath" -> defaultSavePath
          [] k = "offline" -> False
          [] k = "addToNew" -> True]

\* The instance right after the constructor: the class fields are own
\* properties; updateHandlers is initialized to [], the five observable fields
\* are declared without an initializer. super() receives the defaults as the
\* options of the persistence backend and assigns no field. (The properties the
\* ExtensionStore base class keeps on the instance are not modelled.)
Constructed ==
    [k \in Recognized \cup {"updateHandlers"} |->
        IF k = "updateHandlers" THEN Arr(<<>>) ELSE Undef]

\* Mutant: reset only the keys getDefaults() names and keep the stored flags.
ResetKeepFlags(obj, defaults) ==
    [k \in DOMAIN obj |->
        IF k \in {"cloudUrl", "username", "savePath"} THEN Get(defaults, k) ELSE obj[k]]

\* Object.keys(this).forEach((key) => (this[key] = defaults[key]))
ResetKeys(obj, defaults) == [k \in DOMAIN obj |-> Get(defaults, k)]

\* Mutant: reset() ends by calling the update handlers, as fromStore does.
ResetCallsHandlers(obj) ==
    LET uh == Get(obj, "updateHandlers") IN IF IsArray(uh) THEN Elems(uh) ELSE <<>>

\* The handlers reset() calls: its body holds no call of a handler.
ResetCalls(obj) == <<>>

\* Object.keys(store).forEach((key) => (this[key] = store[key]))
CopyKeys(obj, store) ==
    [k \in DOMAIN obj \cup DOMAIN store |-> IF k \in DOMAIN store THEN store[k] ELSE obj[k]]

\* Mutant: the snapshot is taken over the instance's own keys.
ToJSONOwnKeys(obj) == [k \in DOMAIN obj |-> obj[k]]

\* toJSON(): the keys of getDefaults(), each with this[key].
ToJSON(obj) == [k \in DOMAIN GetDefaults |-> Get(obj, k)]

\* updateHandlers.find((h) => h === handler) finds something.
Found(arr, handler) == \E i \in 1..Len(arr) : arr[i] = handler

\* updateHandlers.findIndex((h) => h === handler), 0-based, -1 when absent.
FindIndex(arr, handler) ==
    IF Found(arr, handler)
    THEN (CHOOSE i \in 1..Len(arr) :
            arr[i] = handler /\ \A j \in 1..(i - 1) : arr[j] # handler) - 1
    ELSE -1

\* Mutant: splice drops the last element whatever the index.
SpliceLast(arr, idx) == SubSeq(arr, 1, Len(arr) - 1)

\* arr after arr.splice(idx, 1), idx 0-based.
Splice(arr, idx) == [i \in 1..(Len(arr) - 1) |-> IF i <= idx THEN arr[i] ELSE arr[i + 1]]

\* this.updateHandlers.forEach((h) => h()), run on the instance after the copy:
\* forEach is read off whatever updateHandlers holds by then, and is not a
\* function unless that is an array.
Notify(after) ==
    LET uh == Get(after, "updateHandlers") IN
    IF IsArray(uh)
    THEN [fault |-> "none", calls |-> Elems(uh),
          seen |-> [i \in 1..Len(Elems(uh)) |-> ToJSON(after)]]
    ELSE [fault |-> "TypeError", calls |-> <<>>, seen |-> <<>>]

\* What a handler may do when it is invoked: nothing (<<>>), or one call of
\* removeUpdateHandler or addUpdateHandler on the store that is notifying it,
\* <<actor, "remove" or "add", target>>.
Acts ==
    {<<>>} \cup {<<a, verb, t>> : a \in Handlers, verb \in {"remove", "add"}, t \in Handlers}

\* addUpdateHandler(handler) called by a handler while forEach runs; r holds
\* the registry array and the history of the notification so far.
CallAdd(r, handler) ==
    [r EXCEPT !.uh = IF Found(r.uh, handler) THEN r.uh ELSE Append(r.uh, handler),
              !.registered = IF Found(r.registered, handler)
                             THEN r.registered
                             ELSE Append(r.registered, handler),
              !.twice = IF Found(r.registered, handler) THEN r.twice \cup {handler} ELSE r.twice,
              !.removed = r.removed \ {handler}]

\* removeUpdateHandler(handler) called by a handler while forEach runs.
CallRemove(r, handler) ==
    [r EXCEPT !.uh = IF FindIndex(r.uh, handler) >= 0
                     THEN Splice(r.uh, FindIndex(r.uh, handler))
                     ELSE r.uh,
              !.registered = SelectSeq(r.registered, LAMBDA h : h # handler),
              !.twice = r.twice \ {handler},
              !.removed = IF Found(r.registered, handler)
                          THEN r.removed \cup {handler}
                          ELSE r.removed]

\* Array.prototype.forEach on the registry array from index k (1-based) on:
\* the range of indices is fixed by the length len the array had when forEach
\* started, each index is looked up in the array as it is by then, and an
\* index the array no longer has is passed over.
RECURSIVE ForEach(_, _, _, _)
ForEach(r, k, len, act) ==
    IF k > len
    THEN r
    ELSE IF k > Len(r.uh)
         THEN ForEach(r, k + 1, len, act)
         ELSE LET h == r.uh[k]
                  called == [r EXCEPT !.calls = Append(r.calls, h)]
                  done == IF act # <<>> /\ act[1] = h
                          THEN IF act[2] = "remove"
                               THEN CallRemove(called, act[3])
                               ELSE CallAdd(called, act[3])
                          ELSE called
              IN  ForEach(done, k + 1, len, act)

\* this.updateHandlers.forEach((h) => h()) with handlers that act as act says.
NotifyReentrant(after, act) ==
    LET uh == Get(after, "updateHandlers")
        r == ForEach([uh |-> Elems(uh), registered |-> registered, twice |-> twice,
                      removed |-> removed, calls |-> <<>>],
                     1, Len(Elems(uh)), act)
    IN  IF IsArray(uh)
        THEN [fault |-> "none", calls |-> r.calls,
              seen |-> [i \in 1..Len(r.calls) |-> ToJSON(after)],
              uh |-> Arr(r.uh), registered |-> r.registered, twice |-> r.twice,
              removed |-> r.removed]
        ELSE [fault |-> "TypeError", calls |-> <<>>, seen |-> <<>>,
              uh |-> uh, registered |-> registered, twice |-> twice, removed |-> removed]

----------------------------------------------------------------------------
\* The value maps the persistence backend may hand to fromStore

\* Two maps holding every recognized key, differing on every key.
MapA ==
    [k \in Recognized |->
        CASE k = "cloudUrl" -> Str(<<"u">>)
          [] k = "username" -> Str(<<"n">>)
          [] k = "savePath" -> Str(<<"p">>)
          [] k = "offline" -> True
          [] k = "addToNew" -> False]

MapB ==
    [k \in Recognized |->
        CASE k = "cloudUrl" -> Str(<<"v">>)
          [] k = "username" -> Null
          [] k = "savePath" -> Null
          [] k = "offline" -> False
          [] k = "addToNew" -> True]

Restrict(m, keys) == [k \in keys |-> m[k]]

\* MapA with recognized keys missing: each single key, the two string fields
\* username and savePath, and all of them.
SubMaps ==
    {Restrict(MapA, Recognized \ {k}) : k \in Recognized}
        \cup {Restrict(MapA, {"cloudUrl", "offline", "addToNew"}), Restrict(MapA, {})}

\* One value of MapA replaced by an edge or ill-typed value (MapB holds the
\* null username and savePath).
Replacements ==
    {<<"cloudUrl", Null>>, <<"cloudUrl", Str(<<>>)>>, <<"cloudUrl", Str(<<"u", "/">>)>>,
     <<"cloudUrl", Num7>>, <<"username", Num7>>,
     <<"offline", Null>>, <<"offline", Str(<<"x">>)>>, <<"addToNew", Num7>>}

ReplacedMaps == {Put(MapA, r[1], r[2]) : r \in Replacements}

\* MapA carrying one key outside the recognized ones.
ExtraKeys == {"updateHandlers", "extra"}

ExtraMaps == {Put(MapA, k, Str(<<"x">>)) : k \in ExtraKeys}

\* A lone cloudUrl with a trailing slash.
SlashOnly == [k \in {"cloudUrl"} |-> Str(<<"u", "/">>)]

Maps == {MapA, MapB} \cup SubMaps \cup ReplacedMaps \cup ExtraMaps \cup {SlashOnly}

----------------------------------------------------------------------------
\* Operations

Init ==
    /\ this = Constructed
    /\ defaultSavePath \in {Null, Str(<<"d">>)}
    /\ registered = <<>>
    /\ twice = {}
    /\ removed = {}
    /\ op = "new"
    /\ argMap = EmptyMap
    /\ argH = ""
    /\ valid = FALSE
    /\ fault = "none"
    /\ calls = <<>>
    /\ seen = <<>>
    /\ does = <<>>
    /\ ret = EmptyMap

\* reset()
Reset ==
    /\ this' = ResetKeys(this, GetDefaults)
    /\ op' = "reset"
    /\ argMap' = EmptyMap
    /\ argH' = ""
    /\ does' = <<>>
    /\ valid' = FALSE
    /\ fault' = "none"
    /\ calls' = ResetCalls(this)
    /\ seen' = <<>>
    /\ ret' = EmptyMap
    /\ UNCHANGED <<defaultSavePath, registered, twice, removed>>

\* Mutant: fromStore copies the keys before it looks at the validation result.
FromStoreCopyFirst(store) ==
    LET ok == RtvCheck(store)
        after == CopyKeys(this, store)
        n == Notify(after)
    IN  /\ op' = "fromStore"
        /\ argMap' = store
        /\ argH' = ""
        /\ does' = <<>>
        /\ valid' = ok
        /\ ret' = EmptyMap
        /\ this' = after
        /\ fault' = IF ok THEN n.fault ELSE "none"
        /\ calls' = IF ok THEN n.calls ELSE <<>>
        /\ seen' = IF ok THEN n.seen ELSE <<>>
        /\ UNCHANGED <<defaultSavePath, registered, twice, removed>>

\* fromStore(store)
FromStore(store) ==
    LET ok == RtvCheck(store)
        after == CopyKeys(this, store)
        n == Notify(after)
    IN  /\ op' = "fromStore"
        /\ argMap' = store
        /\ argH' = ""
        /\ does' = <<>>
        /\ valid' = ok
        /\ ret' = EmptyMap
        /\ IF ~ ok
           THEN /\ this' = this
                /\ fault' = "none"
                /\ calls' = <<>>
                /\ seen' = <<>>
           ELSE /\ this' = after
                /\ fault' = n.fault
                /\ calls' = n.calls
                /\ seen' = n.seen
        /\ UNCHANGED <<defaultSavePath, registered, twice, removed>>

\* fromStore(store) when the handlers it invokes act on the registry as act says.
FromStoreReentrant(store, act) ==
    LET ok == RtvCheck(store)
        after == CopyKeys(this, store)
        n == NotifyReentrant(after, act)
    IN  /\ op' = "fromStore"
        /\ argMap' = store
        /\ argH' = ""
        /\ does' = act
        /\ valid' = ok
        /\ ret' = EmptyMap
        /\ IF ~ ok
           THEN /\ this' = this
                /\ fault' = "none"
                /\ calls' = <<>>
                /\ seen' = <<>>
                /\ UNCHANGED <<registered, twice, removed>>
           ELSE /\ this' = Put(after, "updateHandlers", n.uh)
                /\ fault' = n.fault
                /\ calls' = n.calls
                /\ seen' = n.seen
                /\ registered' = n.registered
                /\ twice' = n.twice
                /\ removed' = n.removed
        /\ UNCHANGED defaultSavePath

\* toJSON()
ToJSONCall ==
    /\ ret' = ToJSON(this)
    /\ op' = "toJSON"
    /\ argMap' = EmptyMap
    /\ argH' = ""
    /\ does' = <<>>
    /\ valid' = FALSE
    /\ fault' = "none"
    /\ calls' = <<>>
    /\ seen' = <<>>
    /\ UNCHANGED <<this, defaultSavePath, registered, twice, removed>>

\* PreferencesStore.getDefaults(), a static method: it reads the static
\* defaultSavePath and nothing of the instance.
GetDefaultsCall ==
    /\ ret' = GetDefaults
    /\ op' = "getDefaults"
    /\ argMap' = EmptyMap
    /\ argH' = ""
    /\ does' = <<>>
    /\ valid' = FALSE
    /\ fault' = "none"
    /\ calls' = <<>>
    /\ seen' = <<>>
    /\ UNCHANGED <<this, defaultSavePath, registered, twice, removed>>

\* addUpdateHandler(handler): find is not a function unless updateHandlers is
\* an array.
AddUpdateHandler(handler) ==
    LET uh == Get(this, "updateHandlers") IN
    /\ op' = "addUpdateHandler"
    /\ argMap' = EmptyMap
    /\ argH' = handler
    /\ does' = <<>>
    /\ valid' = FALSE
    /\ calls' = <<>>
    /\ seen' = <<>>
    /\ ret' = EmptyMap
    /\ IF ~ IsArray(uh)
       THEN /\ fault' = "TypeError"
            /\ UNCHANGED <<this, registered, twice, removed>>
       ELSE /\ fault' = "none"
            /\ this' = IF ~ Found(Elems(uh), handler)
                       THEN Put(this, "updateHandlers", Arr(Append(Elems(uh), handler)))
                       ELSE this
            /\ registered' = IF Found(registered, handler)
                             THEN registered
                             ELSE Append(registered, handler)
            /\ twice' = IF Found(registered, handler) THEN twice \cup {handler} ELSE twice
            /\ removed' = removed \ {handler}
    /\ UNCHANGED defaultSavePath

\* removeUpdateHandler(handler): findIndex is not a function unless
\* updateHandlers is an array.
RemoveUpdateHandler(handler) ==
    LET uh == Get(this, "updateHandlers")
        idx == FindIndex(Elems(uh), handler)
    IN  /\ op' = "removeUpdateHandler"
        /\ argMap' = EmptyMap
        /\ argH' = handler
        /\ does' = <<>>
        /\ valid' = FALSE
        /\ calls' = <<>>
        /\ seen' = <<>>
        /\ ret' = EmptyMap
        /\ IF ~ IsArray(uh)
           THEN /\ fault' = "TypeError"
                /\ UNCHANGED <<this, registered, twice, removed>>
           ELSE /\ fault' = "none"
                /\ this' = IF idx >= 0
                           THEN Put(this, "updateHandlers", Arr(Splice(Elems(uh), idx)))
                           ELSE this
                /\ registered' = SelectSeq(registered, LAMBDA h : h # handler)
                /\ twice' = twice \ {handler}
                /\ removed' = IF Found(registered, handler)
                              THEN removed \cup {handler}
                              ELSE removed
        /\ UNCHANGED defaultSavePath

\* The backend hands fromStore a map it read, which may be the snapshot
\* toJSON() gave it to write.
Next ==
    \/ Reset
    \/ \E store \in Maps \cup {ToJSON(this)} : FromStore(store)
    \/ ToJSONCall
    \/ GetDefaultsCall
    \/ \E handler \in Handlers : AddUpdateHandler(handler)
    \/ \E handler \in Handlers : RemoveUpdateHandler(handler)

Spec == Init /\ [][Next]_vars

\* The maps loaded while handlers act on the registry: one accepted map of
\* each of two value sets, and a rejected one.
ReentrantMaps == {MapA, MapB, SlashOnly}

\* The store used by callers whose handlers call back into it.
NextReentrant ==
    \/ Reset
    \/ \E store \in ReentrantMaps : \E act \in Acts : FromStoreReentrant(store, act)
    \/ \E handler \in Handlers : AddUpdateHandler(handler)
    \/ \E handler \in Handlers : RemoveUpdateHandler(handler)

SpecReentrant == Init /\ [][NextReentrant]_vars

----------------------------------------------------------------------------
\* Properties

\* The map of Scenario B: cloudUrl, offline and addToNew only.
ScenarioB == Restrict(MapA, {"cloudUrl", "offline", "addToNew"})

StringFields == {"cloudUrl", "username", "savePath"}
BooleanFields == {"offline", "addToNew"}

EndsInSlash(v) == IsString(v) /\ Len(v) > 1 /\ v[Len(v)] = "/"

\* Only recognized fields, a string or null in the string fields, a boolean in
\* the flags, and a cloudUrl that does not end in "/".
WellFormed(m) ==
    /\ DOMAIN m \subseteq StringFields \cup BooleanFields
    /\ \A k \in DOMAIN m \cap StringFields : IsString(m[k]) \/ m[k] = Null
    /\ \A k \in DOMAIN m \cap BooleanFields : IsBoolean(m[k])
    /\ ~ EndsInSlash(Get(m, "cloudUrl"))

\* A field holding a value that is neither null nor of its declared type, or a
\* cloudUrl ending in "/".
Malformed(m) ==
    \/ \E k \in DOMAIN m \cap StringFields : ~ IsString(m[k]) /\ m[k] # Null
    \/ \E k \in DOMAIN m \cap BooleanFields : ~ IsBoolean(m[k]) /\ m[k] # Null
    \/ EndsInSlash(Get(m, "cloudUrl"))

\* Number of times handler h occurs in the sequence s.
Count(s, h) == Cardinality({i \in 1..Len(s) : s[i] = h})

C2_RejectedLoadNoEffect ==
    [][op' = "fromStore" =>
         /\ Malformed(argMap') => ~ valid'
         /\ ~ valid' => (this' = this /\ fault' = "none" /\ calls' = <<>> /\ seen' = <<>>)]_vars

\* C2 witness: a map with an ill-typed username was rejected by a store that
\* holds loaded values and a registered handler.
C2_Witness ==
    /\ op = "fromStore"
    /\ ~ valid
    /\ Get(argMap, "username") = Num7
    /\ ToJSON(this) = MapB
    /\ Get(this, "updateHandlers") = Arr(<<"h1">>)
    /\ calls = <<>>

\* C3: toJSON() called right after reset() returns exactly getDefaults().
C3_ResetThenToJSON ==
    [][(op = "reset" /\ op' = "toJSON") => ret' = GetDefaults]_vars

\* C3 witness: toJSON() returned the defaults, with the configured save path,
\* on a store that had adopted a map before.
C3_Witness ==
    /\ op = "toJSON"
    /\ ret = GetDefaults
    /\ ret["savePath"] = Str(<<"d">>)
    /\ "extra" \in DOMAIN this

\* C4 as stated: in a fromStore whose map passed validation, every registered
\* handler is invoked, in registration order and nothing else, each observing
\* the fully updated fields.
C4_ValidLoadNotifiesRegistered ==
    (op = "fromStore" /\ valid) =>
        /\ Len(calls) = Len(registered)
        /\ \A i \in 1..Len(registered) :
              i <= Len(calls) /\ calls[i] = registered[i] /\ seen[i] = ToJSON(this)

\* C5 as stated: a fromStore whose map passed validation creates or changes no
\* property of the store outside the five recognized keys.
C5_UnknownKeysNotAdopted ==
    [][(op' = "fromStore" /\ valid') =>
         /\ DOMAIN this' = DOMAIN this
         /\ \A k \in DOMAIN this \ (StringFields \cup BooleanFields) : this'[k] = this[k]]_vars

\* C6: the snapshot toJSON() returns has exactly the five recognized keys.
C6_SnapshotKeys ==
    op = "toJSON" =>
        DOMAIN ret = {"cloudUrl", "username", "savePath", "offline", "addToNew"}

\* C6 witness: toJSON() returned five keys on a store that owns more of them,
\* after a load with an extra key, a reset and a registration attempt.
C6_Witness ==
    /\ op = "toJSON"
    /\ Cardinality(DOMAIN ret) = 5
    /\ "extra" \in DOMAIN this
    /\ "updateHandlers" \in DOMAIN this
    /\ this["extra"] = Undef

\* C7 as stated: a handler registered two or more times is invoked exactly
\* once by every later fromStore whose map passed validation, at the position
\* of its first registration.
C7_RegisteredTwiceInvokedOnce ==
    (op = "fromStore" /\ valid) =>
        \A h \in twice :
            /\ Count(calls, h) = 1
            /\ \A i \in 1..Len(registered) :
                  registered[i] = h => (i <= Len(calls) /\ calls[i] = h)

\* C8 as stated: removeUpdateHandler with a handler that is not registered
\* does not throw and leaves the handler registry as it was.
C8_RemoveUnregisteredNoOp ==
    [][(op' = "removeUpdateHandler" /\ ~ Found(registered, argH')) =>
         /\ fault' = "none"
         /\ Get(this', "updateHandlers") = Get(this, "updateHandlers")
         /\ registered' = registered]_vars

\* C9: the live cloudUrl, when a non-empty string, does not end in "/".
C9_NoTrailingSlash ==
    LET url == Get(this, "cloudUrl") IN
    (IsString(url) /\ Len(url) > 1) => url[Len(url)] # "/"

\* C9 witness: the store holds a non-empty cloudUrl after it was offered one
\* ending in "/".
C9_Witness ==
    /\ op = "fromStore"
    /\ EndsInSlash(Get(argMap, "cloudUrl"))
    /\ Get(this, "cloudUrl") = Str(<<"v">>)

\* C10 as stated: toJSON() on a freshly constructed store, before any
\* fromStore or reset, equals getDefaults().
C10_FreshStoreHoldsDefaults ==
    [][(op = "new" /\ op' = "toJSON") => ret' = GetDefaults]_vars

\* C11 as stated: fromStore rejects every map in which offline or addToNew is
\* present with a value that is not a boolean, null included: no field changes
\* and no handler is invoked.
C11_NonBooleanFlagsRejected ==
    [][(op' = "fromStore" /\ \E k \in DOMAIN argMap' \cap BooleanFields : ~ IsBoolean(argMap'[k])) =>
         (~ valid' /\ this' = this /\ calls' = <<>>)]_vars

\* A map with all five fields, well-formed, with a null string field or an
\* empty cloudUrl.
EdgeCase(m) ==
    /\ WellFormed(m)
    /\ DOMAIN m = StringFields \cup BooleanFields
    /\ (\E k \in StringFields : m[k] = Null) \/ m["cloudUrl"] = Str(<<>>)

\* C12 as stated: fromStore with such a map passes validation, the live fields
\* take the map's values, the null or empty one included, and the registered
\* handlers are notified.
C12_EdgeCasesAdopted ==
    [][(op' = "fromStore" /\ EdgeCase(argMap')) =>
         /\ valid'
         /\ \A k \in DOMAIN argMap' : Get(this', k) = argMap'[k]
         /\ calls' = registered']_vars

\* C12, the part the code keeps: such a map passes validation and the live
\* fields take its values.
C12_EdgeCasesValidated ==
    [][(op' = "fromStore" /\ EdgeCase(argMap')) =>
         (valid' /\ \A k \in DOMAIN argMap' : Get(this', k) = argMap'[k])]_vars

\* C13: getDefaults() returns cloudUrl = null, username = null, offline =
\* false, addToNew = true and savePath = the configured default, whatever the
\* instance holds, and changes nothing of the store.
C13_GetDefaultsPure ==
    [][op' = "getDefaults" =>
         /\ DOMAIN ret' = {"cloudUrl", "username", "savePath", "offline", "addToNew"}
         /\ ret'["cloudUrl"] = Null
         /\ ret'["username"] = Null
         /\ ret'["savePath"] = defaultSavePath
         /\ ret'["offline"] = False
         /\ ret'["addToNew"] = True
         /\ UNCHANGED <<this, defaultSavePath, registered>>]_vars

\* C13 witness: getDefaults() returned the configured save path and the other
\* defaults while the store holds the values of MapA.
C13_Witness ==
    /\ op = "getDefaults"
    /\ ret["savePath"] = Str(<<"d">>)
    /\ ret["offline"] = False
    /\ ToJSON(this) = MapA

\* C14 as stated: reset(), toJSON() and fromStore (accepted or rejected; here
\* with a map that carries no updateHandlers key) leave the update-handler
\* registry exactly as it was.
C14_RegistryFrame ==
    [][(op' \in {"reset", "toJSON"} \/ (op' = "fromStore" /\ "updateHandlers" \notin DOMAIN argMap')) =>
         Get(this', "updateHandlers") = Get(this, "updateHandlers")]_vars

\* C15 as stated: a fromStore that follows a reset, with a well-formed map of
\* all five fields, completes without a fault, adopts the map's values and
\* invokes every registered handler.
C15_LoadAfterReset ==
    [][(op = "reset" /\ op' = "fromStore" /\ WellFormed(argMap')
            /\ DOMAIN argMap' = StringFields \cup BooleanFields) =>
         /\ fault' = "none"
         /\ ToJSON(this') = argMap'
         /\ calls' = registered']_vars

\* C16: reset() invokes no update handler, whatever handlers are registered
\* and whatever the live values were before the call.
C16_ResetInvokesNoHandler ==
    [][op' = "reset" => calls' = <<>>]_vars

\* A reset of a store that held loaded values and two handlers in its registry.
C16_Witness ==
    /\ op = "reset"
    /\ registered = <<"h2", "h1">>
    /\ Get(this, "updateHandlers") = Undef
    /\ calls = <<>>

\* C17: addUpdateHandler, removeUpdateHandler, toJSON, getDefaults and a
\* rejected fromStore leave all five live fields unchanged.
C17_FieldsFrame ==
    [][(op' \in {"addUpdateHandler", "removeUpdateHandler", "toJSON", "getDefaults"}
            \/ (op' = "fromStore" /\ ~ valid')) =>
         ToJSON(this') = ToJSON(this)]_vars

\* A fromStore rejected for its non-boolean offline, on a store holding the
\* values of an earlier load that differ from the rejected map's on every key.
C17_Witness ==
    /\ op = "fromStore"
    /\ ~ valid
    /\ argMap = Put(MapA, "offline", Str(<<"x">>))
    /\ ToJSON(this) = MapB
    /\ registered = <<"h1">>

RemovesInvokedOrAdds(act, start) ==
    \/ act = <<>>
    \/ act[2] = "add"
    \/ /\ act[2] = "remove"
       /\ Found(start, act[1])
       /\ Found(start, act[3])
       /\ FindIndex(start, act[3]) <= FindIndex(start, act[1])

\* C19 as stated: during one successful fromStore every handler that was
\* registered when notification started is invoked exactly once, also when a
\* handler removes itself or an already invoked handler, or adds a handler,
\* from inside its invocation.
C19_ReentrantNotifyAll ==
    [][(/\ op' = "fromStore"
        /\ valid'
        /\ IsArray(Get(this, "updateHandlers"))
        /\ "updateHandlers" \notin DOMAIN argMap'
        /\ RemovesInvokedOrAdds(does', Elems(Get(this, "updateHandlers")))) =>
         \A h \in Handlers :
            Count(calls', h) = IF Found(Elems(Get(this, "updateHandlers")), h) THEN 1 ELSE 0]_vars

\* C20 as stated: in every reachable state the map toJSON() returns passes
\* validation, so a fromStore of it is accepted and leaves every live field
\* unchanged.
C20_SnapshotRoundTrips ==
    [][(op' = "fromStore" /\ argMap' = ToJSON(this)) =>
         /\ valid'
         /\ ToJSON(this') = ToJSON(this)]_vars

====
